---- MODULE Spec2Model ----
(***************************************************************************)
(* Model of scripts/update.js: the nightly job that fetches order totals   *)
(* (fetchShopify, paginated through getNextPage) and analytics (fetchGA4)  *)
(* concurrently, merges them and writes public/data/segment.json.          *)
(*                                                                         *)
(* Text is modelled as a sequence of tokens; a token is a character or a   *)
(* fixed piece of text that the code's parsing never cuts (for instance    *)
(* "page_info=" or "%26").  Numbers are integers (sales in hundredths);    *)
(* NaN is a value of its own that absorbs addition.                        *)
(***************************************************************************)
EXTENDS Integers, Sequences, FiniteSets, TLC

\* ---------------------------------------------------------------- bounds
MaxCursorLen == 2
MaxPages == 2
MaxOrdersPerPage == 2

\* ------------------------------------------------------- text primitives
RECURSIVE IndexOf(_, _, _)
\* least i >= from with s[i] = tok, or 0
IndexOf(s, tok, from) ==
  IF from > Len(s) THEN 0
  ELSE IF s[from] = tok THEN from
  ELSE IndexOf(s, tok, from + 1)

RECURSIVE Split(_, _)
\* String.prototype.split on a one-character separator
Split(s, sep) ==
  LET i == IndexOf(s, sep, 1) IN
  IF i = 0 THEN <<s>>
  ELSE <<SubSeq(s, 1, i - 1)>> \o Split(SubSeq(s, i + 1, Len(s)), sep)

RECURSIVE TrimLeft(_)
TrimLeft(s) ==
  IF s # <<>> /\ Head(s) = " " THEN TrimLeft(Tail(s)) ELSE s

RECURSIVE TrimRight(_)
TrimRight(s) ==
  IF s # <<>> /\ s[Len(s)] = " " THEN TrimRight(SubSeq(s, 1, Len(s) - 1)) ELSE s

\* String.prototype.trim
Trim(s) == TrimRight(TrimLeft(s))

\* ------------------------------------------------- percent encoding
\* decodeURIComponent throws URIError on a "%" that starts no valid escape
Malformed(s) == \E i \in 1..Len(s) : s[i] = "%"

DecodeTok(t) ==
  CASE t = "%26" -> "&"
    [] t = "%20" -> " "
    [] OTHER -> t

\* decodeURIComponent of a text that is not Malformed
decodeURIComponent(s) == [i \in 1..Len(s) |-> DecodeTok(s[i])]

EncodeTok(t) ==
  CASE t = "&" -> "%26"
    [] t = " " -> "%20"
    [] OTHER -> t

encodeURIComponent(s) == [i \in 1..Len(s) |-> EncodeTok(s[i])]

\* ------------------------------------------------------------ getNextPage
\* A header value: res.headers.get('link') is null when the header is absent.
NullHeader == [present |-> FALSE, text |-> <<>>]
Header(t) == [present |-> TRUE, text |-> t]

RelNext == <<"rel=\"next\"">>
RelPrev == <<"rel=\"prev\"">>

\* results of getNextPage: null, a cursor token, or a thrown URIError
RetNull == [kind |-> "null", val |-> <<>>]
RetToken(v) == [kind |-> "token", val |-> v]
RetThrow == [kind |-> "throw", val |-> <<>>]

RECURSIVE RunEnd(_, _)
\* last index of the run of characters other than & and > that starts at i
RunEnd(s, i) ==
  IF i + 1 <= Len(s) /\ s[i + 1] \notin {"&", ">"} THEN RunEnd(s, i + 1) ELSE i

RECURSIVE MatchPageInfo(_, _)
\* urlPart.match(/page_info=([^&>]+)/): the leftmost match, searched from `from`
MatchPageInfo(s, from) ==
  LET i == IndexOf(s, "page_info=", from) IN
  IF i = 0 THEN [found |-> FALSE, val |-> <<>>]
  ELSE IF i + 1 <= Len(s) /\ s[i + 1] \notin {"&", ">"}
       THEN [found |-> TRUE, val |-> SubSeq(s, i + 1, RunEnd(s, i + 1))]
       ELSE MatchPageInfo(s, i + 1)

\* const [urlPart, relPart] = part.split(';').map(s => s.trim())
UrlPart(part) == Trim(Split(part, ";")[1])
RelPartIsNext(part) ==
  LET pieces == Split(part, ";") IN
  Len(pieces) >= 2 /\ Trim(pieces[2]) = RelNext

\* the body of the `if (relPart === 'rel="next"')` branch
NextOf(part) ==
  LET m == MatchPageInfo(UrlPart(part), 1) IN
  IF ~m.found THEN RetNull
  ELSE IF Malformed(m.val) THEN RetThrow
  ELSE RetToken(decodeURIComponent(m.val))

RECURSIVE ScanParts(_, _)
ScanParts(parts, i) ==
  IF i > Len(parts) THEN RetNull
  ELSE IF RelPartIsNext(parts[i]) THEN NextOf(parts[i])
  ELSE ScanParts(parts, i + 1)

getNextPage(linkHeader) ==
  IF ~linkHeader.present \/ linkHeader.text = <<>> THEN RetNull
  ELSE ScanParts([i \in 1..Len(Split(linkHeader.text, ",")) |->
                    Trim(Split(linkHeader.text, ",")[i])], 1)

\* ------------------------------------------- link headers of the inputs
SeqsUpTo(S, n) == UNION {[1..k -> S] : k \in 0..n}

\* encoded cursors as a server may send them, well-formed or not
Cursors == SeqsUpTo({"Z", "%26", "%"}, MaxCursorLen)

Urls ==
  {<<"<u?", "page_info=">> \o c \o <<">">> : c \in Cursors}
  \cup {<<"<u?", "x=1", "&", "page_info=">> \o c \o <<"&", "x=1", ">">> : c \in Cursors}
  \cup {<<"<u?", "x=1", ">">>}

Rels == {<<";", " ">> \o RelNext, <<";", " ">> \o RelPrev, <<";">> \o RelNext, <<>>}

Segments == {u \o r : u \in Urls, r \in Rels}

LinkHeaders ==
  {NullHeader, Header(<<>>)}
  \cup {Header(s) : s \in Segments}
  \cup {Header(s \o <<",", " ">> \o t) : s \in Segments, t \in Segments}

\* ------------------------------------------------------------ parseFloat
\* NaN, outside the range of the model's numbers (which are >= 0)
NaN == -1

IsDigit(t) == t \in {"1", "2"}
DigitOf(t) == IF t = "1" THEN 1 ELSE 2

RECURSIVE DigitPrefix(_, _)
\* length of the longest prefix of s[i..] made of digits
DigitPrefix(s, i) ==
  IF i <= Len(s) /\ IsDigit(s[i]) THEN 1 + DigitPrefix(s, i + 1) ELSE 0

RECURSIVE Decimal(_, _)
\* value of the decimal numeral s[1..n]
Decimal(s, n) == IF n = 0 THEN 0 ELSE 10 * Decimal(s, n - 1) + DigitOf(s[n])

\* parseFloat of a string: its longest numeric prefix, NaN when there is none
parseFloat(s) ==
  LET n == DigitPrefix(s, 1) IN IF n = 0 THEN NaN ELSE Decimal(s, n)

\* an order's total_price: absent (undefined) or a string
MissingPrice == [present |-> FALSE, text |-> <<>>]
Price(t) == [present |-> TRUE, text |-> t]

\* parseFloat(order.total_price || 0): undefined and "" are falsy
PriceOrZero(p) ==
  IF ~p.present \/ p.text = <<>> THEN 0 ELSE parseFloat(p.text)

\* JavaScript + on numbers
Plus(a, b) == IF a = NaN \/ b = NaN THEN NaN ELSE a + b

\* a loop that counts the orders and forgets to add their prices
Accumulate_countOnly(acc, list, i) ==
  [orders |-> acc.orders + Len(list), sales |-> acc.sales]

RECURSIVE Accumulate(_, _, _)
\* for (const order of data.orders) { orders++; sales += parseFloat(...) }
Accumulate(acc, list, i) ==
  IF i > Len(list) THEN acc
  ELSE Accumulate([orders |-> acc.orders + 1,
                   sales |-> Plus(acc.sales, PriceOrZero(list[i]))], list, i + 1)

Prices ==
  {MissingPrice} \cup
  {Price(t) : t \in {<<"1">>, <<"2">>, <<"x">>}}

OrderLists == SeqsUpTo(Prices, MaxOrdersPerPage)

\* what the server delivered, tallied independently of the client
IsNumeric(p) == p.present /\ p.text # <<>> /\ \A i \in 1..Len(p.text) : IsDigit(p.text[i])
IsAbsent(p) == ~p.present \/ p.text = <<>>

RECURSIVE SumNumeric(_)
SumNumeric(list) ==
  IF list = <<>> THEN 0
  ELSE (IF IsNumeric(Head(list)) THEN Decimal(Head(list).text, Len(Head(list).text)) ELSE 0)
       + SumNumeric(Tail(list))

AnyOther(list) == \E i \in 1..Len(list) : ~IsNumeric(list[i]) /\ ~IsAbsent(list[i])

\* ------------------------------------------------------------- JSON.parse
\* JSON texts over the characters [ ] 1: a number, or an array of at most one
\* value.  A value is [depth, empty, num]: num nested in depth arrays, or an
\* empty array nested in depth arrays.
RECURSIVE ParseValue(_, _)
ParseValue(s, i) ==
  LET fail == [ok |-> FALSE, next |-> i, depth |-> 0, empty |-> FALSE, num |-> 0] IN
  IF i > Len(s) THEN fail
  ELSE IF s[i] = "1" THEN
    LET n == DigitPrefix(s, i) IN
    [ok |-> TRUE, next |-> i + n, depth |-> 0, empty |-> FALSE,
     num |-> Decimal(SubSeq(s, i, i + n - 1), n)]
  ELSE IF s[i] = "[" THEN
    IF i + 1 <= Len(s) /\ s[i + 1] = "]"
    THEN [ok |-> TRUE, next |-> i + 2, depth |-> 0, empty |-> TRUE, num |-> 0]
    ELSE LET r == ParseValue(s, i + 1) IN
         IF r.ok /\ r.next <= Len(s) /\ s[r.next] = "]"
         THEN [r EXCEPT !.next = r.next + 1, !.depth = r.depth + 1]
         ELSE fail
  ELSE fail

NoValue == [depth |-> 0, empty |-> FALSE, num |-> 0]

\* JSON.parse: ok is FALSE where it throws SyntaxError
JSONParse(s) ==
  LET r == ParseValue(s, 1) IN
  IF r.ok /\ r.next = Len(s) + 1
  THEN [ok |-> TRUE, value |-> [depth |-> r.depth, empty |-> r.empty, num |-> r.num]]
  ELSE [ok |-> FALSE, value |-> NoValue]

\* -------------------------------------------------------------- the inputs
Filters == {<<>>, <<"[", "1", "]">>, <<"[", "]", "]">>}

\* process.env: a required variable is set to a non-empty value or not
Envs ==
  [store : BOOLEAN, token : BOOLEAN, propertyId : BOOLEAN,
   clientEmail : BOOLEAN, privateKey : BOOLEAN, gaFilter : Filters]

\* link headers of the order API's pages
PageLinks ==
  { NullHeader,
    Header(<<"<u?", "x=1", ">", ";", " ">> \o RelPrev
           \o <<",", " ", "<u?", "page_info=", "Z", "%26", "&", "x=1", ">", ";", " ">> \o RelNext),
    Header(<<"<u?", "page_info=", "%", ">", ";", " ">> \o RelNext),
    Header(<<"<u?", "page_info=", "Z", ">", ";", " ">> \o RelPrev) }

\* the server's cursor chain is finite: its page number MaxPages is the last
LinksOfPage(n) ==
  IF n < MaxPages THEN PageLinks
  ELSE {h \in PageLinks : getNextPage(h).kind # "token"}

ErrorBodies == {"{\"errors\":\"Throttled\"}", "Internal Server Error"}

\* a response as fetch() resolves with it: status and headers, and for an
\* error response the text its body will read as (an ok response's JSON is
\* delivered by res.json())
OkHeads(n) ==
  {[ok |-> TRUE, status |-> 200, link |-> h, body |-> ""] : h \in LinksOfPage(n)}
ErrorHeads ==
  {[ok |-> FALSE, status |-> st, link |-> NullHeader, body |-> b] :
     st \in {429, 500}, b \in ErrorBodies}
NoHead == [ok |-> FALSE, status |-> 0, link |-> NullHeader, body |-> ""]

GaResponses ==
  { [ok |-> FALSE, hasRow |-> FALSE, sessions |-> 0, rate |-> 0],
    [ok |-> TRUE, hasRow |-> FALSE, sessions |-> 0, rate |-> 0],
    [ok |-> TRUE, hasRow |-> TRUE, sessions |-> 1000, rate |-> 250] }

\* errors: a type, and the status and body an order-API error carries
Err(type, status, body) == [type |-> type, status |-> status, body |-> body]
NoErr == Err("none", 0, "")

VARIABLES
  linkHeader, nextPage, pgPc,  \* a call of getNextPage on its own
  env,          \* process.env
  mainPc,       \* main(): "start", "callGA4", "awaitAll", "rejected", "done"
  exited,       \* the process has ended
  exitCode,     \* its exit status, once exited
  stderr,       \* errors printed by console.error
  warnings,     \* number of console.warn lines
  file,         \* content of public/data/segment.json
  writes,       \* number of writeFileSync calls that wrote the file
  shPc,         \* fetchShopify: "idle", "awaitFetch", "awaitText", "awaitJson",
                \*               "fulfilled", "rejected"
  pageInfo, orders, sales,   \* fetchShopify's locals
  res,          \* head (status, headers) of the response being handled
  shResult, shErr,           \* what fetchShopify's promise settled with
  issued,       \* order-API requests issued, in order
  received,     \* heads of the responses received, in order
  servedOrders, servedSum, servedOther,  \* tallies of the delivered records
  gaPc,         \* fetchGA4: "idle", "awaitReport", "fulfilled", "rejected"
  gaRequests,   \* runReport calls issued, in order
  gaResponse,   \* the report response received
  gaResult, gaErr,           \* what fetchGA4's promise settled with
  mainErr       \* the error main() rejected with

pgVars == <<linkHeader, nextPage, pgPc>>
shVars == <<shPc, pageInfo, orders, sales, res, shResult, shErr, issued, received,
            servedOrders, servedSum, servedOther>>
gaVars == <<gaPc, gaRequests, gaResponse, gaResult, gaErr, warnings>>
mainVars == <<mainPc, exited, exitCode, stderr, file, writes, mainErr>>
runVars == <<env, mainVars, shVars, gaVars>>
vars == <<pgVars, runVars>>

PrevFile == [run |-> "previous", sessions |-> 0, orders |-> 0, sales |-> "0", conversionRate |-> 0]
NoShResult == [orders |-> 0, sales |-> 0]
NoGaResult == [sessions |-> 0, conversionRate |-> 0]
NoGaResponse == [ok |-> FALSE, hasRow |-> FALSE, sessions |-> 0, rate |-> 0]

InitRun ==
  /\ mainPc = "start"
  /\ exited = FALSE
  /\ exitCode = 0
  /\ stderr = <<>>
  /\ warnings = 0
  /\ file = PrevFile
  /\ writes = 0
  /\ shPc = "idle"
  /\ pageInfo = RetNull
  /\ orders = 0
  /\ sales = 0
  /\ res = NoHead
  /\ shResult = NoShResult
  /\ shErr = NoErr
  /\ issued = <<>>
  /\ received = <<>>
  /\ servedOrders = 0
  /\ servedSum = 0
  /\ servedOther = FALSE
  /\ gaPc = "idle"
  /\ gaRequests = <<>>
  /\ gaResponse = NoGaResponse
  /\ gaResult = NoGaResult
  /\ gaErr = NoErr
  /\ mainErr = NoErr

Init ==
  /\ env \in Envs
  /\ InitRun
  /\ linkHeader = NullHeader
  /\ nextPage = RetNull
  /\ pgPc = "returned"

\* ------------------------------------------------------------ fetchShopify
\* a check that forgets the token
ShopifyCredsOk_storeOnly(e) == e.store

\* if (!store || !token) throw
ShopifyCredsOk(e) == e.store /\ e.token

\* a JavaScript string or null is truthy when it is a non-empty string
Truthy(p) == p.kind = "token" /\ p.val # <<>>

\* a request that never carries the cursor
FetchUrl_noCursor(p) == [hasCursor |-> FALSE, page_info |-> <<>>]

\* fetchUrl: the first request carries no page_info, a later one the cursor
FetchUrl(p) ==
  IF Truthy(p) THEN [hasCursor |-> TRUE, page_info |-> encodeURIComponent(p.val)]
  ELSE [hasCursor |-> FALSE, page_info |-> <<>>]

\* a client that never looks at res.ok
IsOk_always(r) == TRUE

\* if (!res.ok)
IsOk(r) == r.ok

\* } while (pageInfo)
LoopAgain(p) == Truthy(p)

\* main() evaluates fetchShopify(): it runs up to its first await
CallFetchShopify ==
  /\ mainPc = "start"
  /\ mainPc' = "callGA4"
  /\ IF ShopifyCredsOk(env)
     THEN /\ issued' = Append(issued, FetchUrl(pageInfo))
          /\ shPc' = "awaitFetch"
          /\ UNCHANGED shErr
     ELSE /\ shPc' = "rejected"
          /\ shErr' = Err("MissingShopifyEnv", 0, "")
          /\ UNCHANGED issued
  /\ UNCHANGED <<pgVars, env, exited, exitCode, stderr, file, writes, mainErr, gaVars,
                 pageInfo, orders, sales, res, shResult, received,
                 servedOrders, servedSum, servedOther>>

\* a join that lets main() go on as soon as one promise fulfils
AllFulfilled_any == shPc = "fulfilled" \/ gaPc = "fulfilled"

\* Promise.all of the two promises
AllFulfilled == shPc = "fulfilled" /\ gaPc = "fulfilled"
AnyRejected == shPc = "rejected" \/ gaPc = "rejected"

\* I/O callbacks run when the process lives and no promise reaction is queued
IoTurn == ~exited /\ mainPc = "awaitAll" /\ ~AllFulfilled /\ ~AnyRejected

\* `await fetch(...)` resumes with the response's status and headers
ShopifyRespond ==
  /\ IoTurn
  /\ shPc = "awaitFetch"
  /\ \E h \in OkHeads(Len(issued)) \cup ErrorHeads :
       /\ res' = h
       /\ received' = Append(received, h)
       /\ shPc' = IF IsOk(h) THEN "awaitJson" ELSE "awaitText"
  /\ UNCHANGED <<pgVars, env, mainVars, gaVars, pageInfo, orders, sales, shResult, shErr,
                 issued, servedOrders, servedSum, servedOther>>

\* `await res.text()` resumes with the body; the error is thrown
ShopifyText ==
  /\ IoTurn
  /\ shPc = "awaitText"
  /\ shErr' = Err("ShopifyApiError", res.status, res.body)
  /\ shPc' = "rejected"
  /\ UNCHANGED <<pgVars, env, mainVars, gaVars, pageInfo, orders, sales, res, shResult,
                 issued, received, servedOrders, servedSum, servedOther>>

\* `await res.json()` resumes with the page: accumulate, read the cursor, and
\* either issue the next request, return, or throw what getNextPage threw
ShopifyJson ==
  /\ IoTurn
  /\ shPc = "awaitJson"
  /\ LET next == getNextPage(res.link) IN
     \E list \in OrderLists :
       LET acc == Accumulate([orders |-> orders, sales |-> sales], list, 1)
       IN /\ orders' = acc.orders
          /\ sales' = acc.sales
          /\ servedOrders' = servedOrders + Len(list)
          /\ servedSum' = servedSum + SumNumeric(list)
          /\ servedOther' = (servedOther \/ AnyOther(list))
          /\ IF next.kind = "throw"
             THEN /\ shPc' = "rejected"
                  /\ shErr' = Err("URIError", 0, "")
                  /\ UNCHANGED <<pageInfo, issued, shResult>>
             ELSE /\ pageInfo' = next
                  /\ UNCHANGED shErr
                  /\ IF LoopAgain(next)
                     THEN /\ issued' = Append(issued, FetchUrl(next))
                          /\ shPc' = "awaitFetch"
                          /\ UNCHANGED shResult
                     ELSE /\ shPc' = "fulfilled"
                          /\ shResult' = acc
                          /\ UNCHANGED issued
  /\ UNCHANGED <<pgVars, env, mainVars, gaVars, res, received>>

\* ---------------------------------------------------------------- fetchGA4
\* if (!propertyId || !clientEmail || !privateKey) throw
Ga4CredsOk(e) == e.propertyId /\ e.clientEmail /\ e.privateKey

\* JSON.parse without the try/catch
ApplyFilter_fatal(dimFilter) ==
  IF dimFilter = <<>>
  THEN [fatal |-> FALSE, warn |-> FALSE, hasFilter |-> FALSE, dimensionFilter |-> NoValue]
  ELSE IF JSONParse(dimFilter).ok
  THEN [fatal |-> FALSE, warn |-> FALSE, hasFilter |-> TRUE,
        dimensionFilter |-> JSONParse(dimFilter).value]
  ELSE [fatal |-> TRUE, warn |-> FALSE, hasFilter |-> FALSE, dimensionFilter |-> NoValue]

\* the optional filter: what the try/catch around JSON.parse leaves behind
\* (fatal: the error escapes fetchGA4)
ApplyFilter(dimFilter) ==
  IF dimFilter = <<>>
  THEN [fatal |-> FALSE, warn |-> FALSE, hasFilter |-> FALSE, dimensionFilter |-> NoValue]
  ELSE IF JSONParse(dimFilter).ok
  THEN [fatal |-> FALSE, warn |-> FALSE, hasFilter |-> TRUE,
        dimensionFilter |-> JSONParse(dimFilter).value]
  ELSE [fatal |-> FALSE, warn |-> TRUE, hasFilter |-> FALSE, dimensionFilter |-> NoValue]

\* the first row's two metrics, or zeros
RowResult(r) ==
  IF r.hasRow THEN [sessions |-> r.sessions, conversionRate |-> r.rate]
  ELSE [sessions |-> 0, conversionRate |-> 0]

\* main() evaluates fetchGA4(): it runs up to its first await
CallFetchGA4 ==
  /\ mainPc = "callGA4"
  /\ mainPc' = "awaitAll"
  /\ IF ~Ga4CredsOk(env)
     THEN /\ gaPc' = "rejected"
          /\ gaErr' = Err("MissingGa4Credentials", 0, "")
          /\ UNCHANGED <<gaRequests, warnings>>
     ELSE LET f == ApplyFilter(env.gaFilter) IN
          /\ warnings' = IF f.warn THEN warnings + 1 ELSE warnings
          /\ IF f.fatal
             THEN /\ gaPc' = "rejected"
                  /\ gaErr' = Err("SyntaxError", 0, "")
                  /\ UNCHANGED gaRequests
             ELSE /\ gaPc' = "awaitReport"
                  /\ gaRequests' = Append(gaRequests,
                       [hasFilter |-> f.hasFilter, dimensionFilter |-> f.dimensionFilter])
                  /\ UNCHANGED gaErr
  /\ UNCHANGED <<pgVars, env, exited, exitCode, stderr, file, writes, mainErr, shVars,
                 gaResponse, gaResult>>

\* `await analyticsDataClient.runReport(request)` resumes or throws
GaRespond ==
  /\ IoTurn
  /\ gaPc = "awaitReport"
  /\ \E r \in GaResponses :
       /\ gaResponse' = r
       /\ IF r.ok
          THEN /\ gaPc' = "fulfilled"
               /\ gaResult' = RowResult(r)
               /\ UNCHANGED gaErr
          ELSE /\ gaPc' = "rejected"
               /\ gaErr' = Err("ReportError", 0, "")
               /\ UNCHANGED gaResult
  /\ UNCHANGED <<pgVars, env, mainVars, shVars, gaRequests, warnings>>

\* -------------------------------------------------------------------- main
\* JSON.stringify of a number: NaN is written as null
JsonNumber(n) == IF n = NaN THEN "null" ELSE ToString(n)

\* the output record.  The model's numbers are exact in the unit the output
\* keeps: sessions are whole, sales are hundredths (toFixed(2) changes nothing)
\* and the rate is in ten-thousandths, which is hundredths of a percent.
Compose(sh, ga) ==
  [run |-> "this", sessions |-> ga.sessions, orders |-> sh.orders,
   sales |-> JsonNumber(sh.sales), conversionRate |-> ga.conversionRate]

\* process.exit(1) in the catch handler; a run that just ends exits with 0
NormalExitCode == 0
\* a handler that logs and ends the process as if nothing had failed
CatchExitCode_zero == NormalExitCode
CatchExitCode == 1

FsOutcomes == {"ok", "mkdirFails", "writeFails"}

\* Promise.all fulfils: main() composes the record, creates the directory and
\* writes the file, all synchronously; mkdirSync or writeFileSync may throw
MainContinue ==
  /\ ~exited
  /\ mainPc = "awaitAll"
  /\ AllFulfilled
  /\ \E fsys \in FsOutcomes :
       IF fsys = "ok"
       THEN /\ file' = Compose(shResult, gaResult)
            /\ writes' = writes + 1
            /\ mainPc' = "done"
            /\ UNCHANGED mainErr
       ELSE /\ mainErr' = Err(fsys, 0, "")
            /\ mainPc' = "rejected"
            /\ UNCHANGED <<file, writes>>
  /\ UNCHANGED <<pgVars, env, exited, exitCode, stderr, shVars, gaVars>>

\* Promise.all rejects with the first rejection: main() rejects at its await
MainReject ==
  /\ ~exited
  /\ mainPc = "awaitAll"
  /\ AnyRejected
  /\ mainErr' = IF shPc = "rejected" THEN shErr ELSE gaErr
  /\ mainPc' = "rejected"
  /\ UNCHANGED <<pgVars, env, exited, exitCode, stderr, file, writes, shVars, gaVars>>

\* main().catch(err => { console.error(err); process.exit(1) })
MainCatch ==
  /\ ~exited
  /\ mainPc = "rejected"
  /\ stderr' = Append(stderr, mainErr)
  /\ exited' = TRUE
  /\ exitCode' = CatchExitCode
  /\ UNCHANGED <<pgVars, env, mainPc, file, writes, mainErr, shVars, gaVars>>

\* nothing left to wait for: the process ends by itself
PendingIo == shPc \in {"awaitFetch", "awaitText", "awaitJson"} \/ gaPc = "awaitReport"

ProcessEnd ==
  /\ ~exited
  /\ mainPc = "done"
  /\ ~PendingIo
  /\ exited' = TRUE
  /\ exitCode' = NormalExitCode
  /\ UNCHANGED <<pgVars, env, mainPc, stderr, file, writes, mainErr, shVars, gaVars>>

Next ==
  \/ CallFetchShopify
  \/ CallFetchGA4
  \/ ShopifyRespond
  \/ ShopifyText
  \/ ShopifyJson
  \/ GaRespond
  \/ MainContinue
  \/ MainReject
  \/ MainCatch
  \/ ProcessEnd

Spec == Init /\ [][Next]_vars

\* ------------------------------------------------ getNextPage on its own
InitPaginator ==
  /\ linkHeader \in LinkHeaders
  /\ nextPage = RetNull
  /\ pgPc = "call"
  /\ env = [store |-> TRUE, token |-> TRUE, propertyId |-> TRUE,
            clientEmail |-> TRUE, privateKey |-> TRUE, gaFilter |-> <<>>]
  /\ InitRun

CallGetNextPage ==
  /\ pgPc = "call"
  /\ nextPage' = getNextPage(linkHeader)
  /\ pgPc' = "returned"
  /\ UNCHANGED <<linkHeader, runVars>>

PaginatorSpec == InitPaginator /\ [][CallGetNextPage]_vars

\* ------------------------------------------------------------- properties
Settled(pc) == pc \in {"fulfilled", "rejected"}
\* the required variables of each client, as the header comment lists them
ShopifyCredsSet == env.store /\ env.token
Ga4CredsSet == env.propertyId /\ env.clientEmail /\ env.privateKey
AnyCredMissing == ~(ShopifyCredsSet /\ Ga4CredsSet)
FsFailed == mainErr.type \in {"mkdirFails", "writeFails"}
\* the cursor a response's link header announces
Announced(h) == getNextPage(h.link)

\* C1: the output file is written only after both fetchShopify and fetchGA4
\* have fulfilled; when either of them rejects the file is never written and
\* keeps its previous content.
C1_WriteOnlyAfterBoth ==
  /\ (writes > 0 \/ file # PrevFile) => (shPc = "fulfilled" /\ gaPc = "fulfilled")
  /\ (shPc = "rejected" \/ gaPc = "rejected") => (writes = 0 /\ file = PrevFile)

C1_Witness ==
  exited /\ shPc = "fulfilled" /\ gaPc = "rejected" /\ servedOrders > 0 /\ file = PrevFile

\* C2 as stated: main() resumes (goes on to compose and write, or enters the
\* failure handler, or the process exits) only once both fetches have settled.
C2_ResumesOnlyWhenBothSettled ==
  (mainPc \in {"rejected", "done"} \/ exited) => (Settled(shPc) /\ Settled(gaPc))

\* C2 as amended: main() goes on to compose and write only once both fetches
\* have fulfilled; it enters the failure handler once one of them has
\* rejected, with that fetch's error, whatever the state of the other one.
C2_JoinIsFailFast ==
  /\ (mainPc = "done" \/ FsFailed) => (shPc = "fulfilled" /\ gaPc = "fulfilled")
  /\ (mainPc = "rejected" /\ ~FsFailed) =>
       \/ shPc = "rejected" /\ mainErr = shErr
       \/ gaPc = "rejected" /\ mainErr = gaErr
  /\ (mainPc = "awaitAll" /\ ~exited) => mainErr = NoErr

C2_Witness ==
  exited /\ exitCode = 1 /\ shPc = "rejected" /\ gaPc = "awaitReport"

\* C3 as stated: when a required credential is missing the run fails without
\* either client having issued a network request.
C3_NoRequestWhenAnyCredMissing ==
  (AnyCredMissing /\ exited) => (exitCode = 1 /\ issued = <<>> /\ gaRequests = <<>>)

\* C3 as amended: a client whose credential is missing issues no request of
\* its own and the run fails with status 1 and nothing written; the other
\* client, its credentials being present, has issued its first request by then.
C3_OwnCredsCheckedBeforeOwnRequest ==
  /\ ~ShopifyCredsSet => issued = <<>>
  /\ ~Ga4CredsSet => gaRequests = <<>>
  /\ AnyCredMissing => (mainPc # "done" /\ writes = 0 /\ (exited => exitCode = 1))
  /\ (AnyCredMissing /\ mainPc \notin {"start", "callGA4"}) =>
       /\ ShopifyCredsSet => Len(issued) = 1
       /\ Ga4CredsSet => Len(gaRequests) = 1

C3_Witness ==
  /\ exited /\ exitCode = 1
  /\ ShopifyCredsSet /\ ~env.privateKey /\ env.propertyId /\ env.clientEmail
  /\ Len(issued) = 1 /\ gaRequests = <<>>

\* C4: a non-success response on any page ends fetchShopify with an error
\* carrying that response's status and body; nothing is returned, the request
\* is not retried and no further page is requested.
C4_ErrorResponseAborts ==
  \A k \in 1..Len(received) :
    ~received[k].ok =>
      /\ k = Len(received)
      /\ Len(issued) = k
      /\ shPc \in {"awaitText", "rejected"}
      /\ shResult = NoShResult
      /\ shPc = "rejected" =>
           shErr = Err("ShopifyApiError", received[k].status, received[k].body)

C4_Witness ==
  /\ Len(received) = 2 /\ received[1].ok /\ ~received[2].ok
  /\ orders > 0 /\ shPc = "rejected" /\ shErr.status = 429

\* C5: when fetchShopify returns, orders is the number of records delivered
\* over all pages and sales the sum of their prices (the records carrying
\* numbers); the pages fetched are exactly the cursor chain from the first
\* page to the first page with no next cursor, each fetched once.
C5_TotalsOverAllPages ==
  shPc = "fulfilled" =>
    /\ shResult.orders = servedOrders
    /\ ~servedOther => shResult.sales = servedSum
    /\ Len(issued) = Len(received)
    /\ \A k \in 1..Len(received) :
         /\ received[k].ok
         /\ (Announced(received[k]).kind = "token") <=> (k < Len(received))
    /\ ~issued[1].hasCursor
    /\ \A k \in 2..Len(issued) :
         issued[k] = [hasCursor |-> TRUE,
                      page_info |-> encodeURIComponent(Announced(received[k - 1]).val)]

C5_Witness ==
  /\ shPc = "fulfilled" /\ Len(received) = 2
  /\ shResult = [orders |-> 3, sales |-> 5] /\ ~servedOther

\* C6: for every Link header value getNextPage returns a cursor token or
\* none, and nothing else (none too when the header is unparsable).
C6_ReturnsTokenOrNone ==
  pgPc = "returned" => nextPage.kind \in {"token", "null"}

\* C7: a run that ends has exit status 0 exactly when the output record was
\* written, and status 1 with the error printed after any failure (a missing
\* credential, an order-API error, a report failure, a failed mkdir or write).
C7_ExitStatus ==
  exited =>
    /\ exitCode \in {0, 1}
    /\ exitCode = 0 <=> writes = 1
    /\ exitCode = 0 => (file # PrevFile /\ stderr = <<>> /\ mainErr = NoErr)
    /\ (shPc = "rejected" \/ gaPc = "rejected" \/ mainErr # NoErr) =>
         (exitCode = 1 /\ stderr = <<mainErr>> /\ mainErr # NoErr)

C7_Witness ==
  exited /\ exitCode = 1 /\ mainErr.type = "writeFails" /\ stderr = <<mainErr>>

\* C8: with all analytics credentials present, a filter that fails to parse
\* is not fatal: a warning is logged, the report request is issued once and
\* carries no dimension filter, and the result is the one the response gives;
\* a filter that parses is attached to the request.
C8_BadFilterIgnored ==
  (Ga4CredsSet /\ mainPc \notin {"start", "callGA4"}) =>
    /\ Len(gaRequests) = 1
    /\ gaErr.type # "SyntaxError"
    /\ gaPc = "fulfilled" => gaResult = RowResult(gaResponse)
    /\ (env.gaFilter # <<>> /\ ~JSONParse(env.gaFilter).ok) =>
         (warnings = 1 /\ ~gaRequests[1].hasFilter)
    /\ env.gaFilter = <<>> => (warnings = 0 /\ ~gaRequests[1].hasFilter)
    /\ JSONParse(env.gaFilter).ok =>
         /\ warnings = 0
         /\ gaRequests[1].hasFilter
         /\ gaRequests[1].dimensionFilter = JSONParse(env.gaFilter).value

C8_Witness ==
  /\ env.gaFilter = <<"[", "]", "]">> /\ warnings = 1
  /\ gaPc = "fulfilled" /\ gaResult = [sessions |-> 1000, conversionRate |-> 250]
  /\ ~gaRequests[1].hasFilter

\* C9: pagination is a sequential cursor chain: with credentials present a
\* first request is made; at most one request is in flight; request k+1 is
\* issued only after response k and carries the cursor of that response's
\* link header; after a response with no next cursor no request is issued and
\* the fetch completes.
C9_SequentialCursorChain ==
  /\ (ShopifyCredsSet /\ mainPc # "start") => Len(issued) >= 1
  /\ Len(issued) - Len(received) \in {0, 1}
  /\ (Len(issued) - Len(received) = 1) <=> (shPc = "awaitFetch")
  /\ issued # <<>> => ~issued[1].hasCursor
  /\ \A k \in 2..Len(issued) :
       /\ received[k - 1].ok
       /\ Announced(received[k - 1]).kind = "token"
       /\ issued[k].hasCursor
       /\ decodeURIComponent(issued[k].page_info) = Announced(received[k - 1]).val
  /\ \A k \in 1..Len(received) :
       (received[k].ok /\ Announced(received[k]).kind = "null") =>
         /\ Len(issued) = k
         /\ shPc \in {"awaitJson", "fulfilled"}

C9_Witness ==
  /\ shPc = "fulfilled" /\ Len(issued) = 2
  /\ issued[2].page_info = <<"Z", "%26">>
  /\ pageInfo = RetNull

\* C10: an order whose price is missing or non-numeric counts as one order
\* and adds 0 to the sales, so the returned sales is a number, the sum of the
\* numeric prices.
C10_NonNumericCountsAsZero ==
  shPc = "fulfilled" =>
    /\ shResult.orders = servedOrders
    /\ shResult.sales # NaN
    /\ shResult.sales = servedSum
====
